---------------------------- MODULE Spec2Model ----------------------------
(***************************************************************************)
(* Model of backend/main.py of dj-jukebox: the room registry and the song  *)
(* requests kept in the document store (db.rooms, db.song_requests), the   *)
(* in-memory ConnectionManager, the request handlers of the room session   *)
(* API and the websocket endpoint.                                         *)
(*                                                                         *)
(* Every handler is an asyncio coroutine.  It runs without interruption    *)
(* from one await to the next, so each action below is the code between    *)
(* two consecutive awaits of one handler.  A store operation (find_one,    *)
(* update_one, insert_one) takes effect atomically in the step that        *)
(* issues it.  A send_json writes the frame to the listener's transport    *)
(* when it is called and then suspends; suspended sends on one transport   *)
(* complete in the order they were issued.                                 *)
(***************************************************************************)
EXTENDS Integers, Sequences, FiniteSets, TLC

\* ------------------------------------------------------------- bounds ---
\* Handlers of the HTTP API that may be in flight at the same time.
MaxTasks == 2
\* API calls started in one behaviour when calls may overlap.
MaxCalls == 3
\* API calls started in one behaviour when each call ends before the next.
MaxSeqCalls == 4
\* Votes started in one behaviour when votes may overlap.
MaxVoteCalls == 4
\* Status changes and votes started in one behaviour when they may overlap.
StatusCalls == 2
\* Websocket connections opened and broadcasts invoked in one behaviour of the
\* hub when only the routing by pin is looked at.
PinListeners == 2
PinBroadcasts == 2
\* Websocket connections opened in one behaviour.
MaxListeners == 3
\* Broadcasts invoked in one behaviour.
MaxBroadcasts == 2

Tasks == 1..MaxTasks
Listeners == 1..MaxListeners
\* The PINs generate_room_pin can draw (ten thousand in the code, two here).
Pins == {"1111", "2222"}
\* DJ identities (User.id of the bearer of the token).
DJs == {"d1", "d2"}
\* Voter identities (VoteRequest.session_id).
Voters == {"s1", "s2", "s3"}
\* The display name a user_joined announcement carries ("": none).
Users == {"ann"}
\* Song ids a caller may name; ids beyond the stored songs are absent.
SongIds == 1..2
\* The statuses a caller may set (StatusUpdate.status is any string).
Statuses == {"playing", "played"}

VARIABLES
    rooms,               \* db.rooms, in insertion order; a room's id is its index
    songs,               \* db.song_requests, in insertion order; id = index
    active_connections,  \* manager.active_connections: pin -> list of listeners
    ws,                  \* websocket_endpoint: one handler per connection
    transport,           \* whether the client end of a connection is still there
    inbox,               \* the frames each client has been sent, in order
    sendq,               \* per transport, the senders suspended in send_json
    api,                 \* the API handlers in flight
    bc,                  \* ConnectionManager.broadcast: each caller's loop state
    ncalls,              \* API calls started so far
    nb,                  \* broadcasts invoked so far
    blog,                \* per broadcast: its pin, who was registered, finished?
    vlog,                \* per song: the song as the last two votes found it
    closed_ok,           \* pins a close_room answered 200 for, not drawn since
    mgr                  \* the last call made on the manager by a direct caller

vars == <<rooms, songs, active_connections, ws, transport, inbox, sendq,
          api, bc, ncalls, nb, blog, vlog, closed_ok, mgr>>

dbVars == <<rooms, songs>>
hubVars == <<active_connections, inbox, sendq, bc, nb, blog>>
wsVars == <<ws, transport>>
logVars == <<vlog, closed_ok, mgr>>

\* ------------------------------------------------------------ helpers ---
Range(s) == {s[i] : i \in 1..Len(s)}

\* s without every occurrence of x (MongoDB's $pull).
RECURSIVE Pull(_, _)
Pull(s, x) ==
    IF s = <<>> THEN <<>>
    ELSE IF Head(s) = x THEN Pull(Tail(s), x)
    ELSE <<Head(s)>> \o Pull(Tail(s), x)

\* s without the first occurrence of x (list.remove).
RECURSIVE RemoveFirst(_, _)
RemoveFirst(s, x) ==
    IF s = <<>> THEN <<>>
    ELSE IF Head(s) = x THEN Tail(s)
    ELSE <<Head(s)>> \o RemoveFirst(Tail(s), x)

\* The callers of broadcast: API handlers and websocket handlers.
ApiProc(t) == <<"api", t>>
WsProc(l) == <<"ws", l>>
Procs == {ApiProc(t) : t \in Tasks} \cup {WsProc(l) : l \in Listeners}

\* A song as a handler holds it.  created_at says what kind of value the field
\* holds: the ISO string request_song stored ("isoformat") or the datetime
\* object of the SongRequest model ("datetime").
NoSong == [id |-> 0, room_id |-> 0, votes |-> 0, voted_by |-> <<>>,
           status |-> "none", created_at |-> ""]

\* A stored song with its id, as find_one returns it.
SongDoc(s) == [id |-> s, room_id |-> songs[s].room_id, votes |-> songs[s].votes,
               voted_by |-> songs[s].voted_by, status |-> songs[s].status,
               created_at |-> "isoformat"]

\* SongRequest.model_dump(): the fields of the model as Python values, created_at
\* a datetime.
ModelDump(s, r) == [id |-> s, room_id |-> r, votes |-> 0, voted_by |-> <<>>,
                    status |-> "pending", created_at |-> "datetime"]

\* A frame on the wire: its type and its payload (song, user).  pin and seq say
\* which broadcast sent it (seq 0: sent directly by the endpoint) and room which
\* room the sending handler had loaded (0: none); these three are not on the
\* wire.
Event(type, pin, seq, room, song, user) ==
    [type |-> type, pin |-> pin, seq |-> seq, room |-> room, song |-> song,
     user |-> user]

IdleBc == [on |-> FALSE, pin |-> "", msg |-> Event("", "", 0, 0, NoSong, ""),
           idx |-> 0, live |-> FALSE, wait |-> 0]

\* No call has been made on the manager directly.
NoCall == [op |-> "", ws |-> 0, pin |-> "", raised |-> FALSE, before |-> <<>>]

IdleApi == [op |-> "", pc |-> "idle", pin |-> "", dj |-> "", song |-> 0,
            voter |-> "", status |-> "", room |-> 0, votes |-> 0,
            voted_by |-> <<>>, updated |-> NoSong, found |-> <<>>, result |-> 0,
            writes |-> 0, sends |-> 0]


\* ------------------------------------------------- ConnectionManager ---
\* ConnectionManager.connect after the accept: create the pin's list if it is
\* missing, append the websocket.
connect(ac, l, p) ==
    IF p \in DOMAIN ac
    THEN [ac EXCEPT ![p] = Append(@, l)]
    ELSE [q \in DOMAIN ac \cup {p} |-> IF q = p THEN <<l>> ELSE ac[q]]

\* ConnectionManager.disconnect: a no-op when the pin has no list; list.remove
\* raises ValueError when the websocket is not in the list.
disconnect_raises(ac, l, p) == p \in DOMAIN ac /\ l \notin Range(ac[p])

\* disconnect without the deletion of a pin's entry whose list became empty.
disconnect_keeps_entry(ac, l, p) ==
    IF p \notin DOMAIN ac \/ l \notin Range(ac[p]) THEN ac
    ELSE [ac EXCEPT ![p] = RemoveFirst(@, l)]

disconnect(ac, l, p) ==
    IF p \notin DOMAIN ac \/ l \notin Range(ac[p]) THEN ac
    ELSE IF RemoveFirst(ac[p], l) = <<>>
         THEN [q \in DOMAIN ac \ {p} |-> ac[q]]
         ELSE [ac EXCEPT ![p] = RemoveFirst(@, l)]

\* A broadcast loop iterates the list object it found under the pin.  When
\* disconnect deletes the pin's entry that object is empty and stays empty; a
\* list created later under the same pin is another object.
detach(b, ac, l, p) ==
    [P \in DOMAIN b |->
        IF b[P].on /\ b[P].pin = p /\ p \notin DOMAIN disconnect(ac, l, p)
        THEN [b[P] EXCEPT !.live = FALSE]
        ELSE b[P]]

\* The connections of the pins in P, one pin's list after the other.
RECURSIVE ConnectionsOf(_)
ConnectionsOf(P) ==
    IF P = {} THEN <<>>
    ELSE LET p == CHOOSE q \in P : TRUE
         IN active_connections[p] \o ConnectionsOf(P \ {p})

\* BcList for a broadcast that iterates the connections of every pin instead
\* of those under its own pin.
BcListEveryPin(it) ==
    IF it.live THEN ConnectionsOf(DOMAIN active_connections) ELSE <<>>

\* The list a broadcast loop is iterating, as it is now.
BcList(it) ==
    IF it.live /\ it.pin \in DOMAIN active_connections
    THEN active_connections[it.pin]
    ELSE <<>>

\* The list iterator's next(): there is an element at its index.
BcHasNext(it) == it.idx < Len(BcList(it))

\* send_json starts with json.dumps(message), which raises TypeError for a
\* datetime.
JsonSerializable(msg) == msg.song.created_at # "datetime"

\* BroadcastLoop without the try/except around the send: a send to a transport
\* that is gone raises out of the loop and ends the broadcast.
BroadcastLoopNoExcept(P, it, sq, log) ==
    IF BcHasNext(it) /\ JsonSerializable(it.msg)
          /\ transport[BcList(it)[it.idx + 1]] = "open"
    THEN LET c == BcList(it)[it.idx + 1] IN
         /\ inbox' = [inbox EXCEPT ![c] = Append(@, it.msg)]
         /\ sendq' = [sq EXCEPT ![c] = Append(@, P)]
         /\ bc' = [bc EXCEPT ![P] = [it EXCEPT !.idx = @ + 1, !.wait = c]]
         /\ blog' = log
    ELSE /\ inbox' = inbox
         /\ sendq' = sq
         /\ bc' = [bc EXCEPT ![P] = IdleBc]
         /\ blog' = [log EXCEPT ![it.msg.seq].done = TRUE]

\* One turn of the loop of broadcast, from iterator state `it`, with sq and log
\* the send queues and the broadcast log so far: send to the next connection
\* and suspend in that send (a failing send raises, and the bare except
\* swallows it), or leave the loop.  When the message cannot be serialised
\* every send raises before its first await, so the loop runs to its end
\* without suspending and without a frame sent.
BroadcastLoop(P, it, sq, log) ==
    IF BcHasNext(it) /\ JsonSerializable(it.msg)
    THEN LET c == BcList(it)[it.idx + 1] IN
         /\ inbox' = [inbox EXCEPT ![c] =
                        IF transport[c] = "open" THEN Append(@, it.msg) ELSE @]
         /\ sendq' = [sq EXCEPT ![c] = Append(@, P)]
         /\ bc' = [bc EXCEPT ![P] = [it EXCEPT !.idx = @ + 1, !.wait = c]]
         /\ blog' = log
    ELSE /\ inbox' = inbox
         /\ sendq' = sq
         /\ bc' = [bc EXCEPT ![P] = IdleBc]
         /\ blog' = [log EXCEPT ![it.msg.seq].done = TRUE]

\* ConnectionManager.broadcast, from the call to its first await.
broadcast(P, p, type, room, song, user) ==
    LET has == p \in DOMAIN active_connections
        it == [on |-> TRUE, pin |-> p,
               msg |-> Event(type, p, nb + 1, room, song, user),
               idx |-> 0, live |-> has, wait |-> 0]
        entry == [pin |-> p,
                  audience |-> IF has THEN Range(active_connections[p]) ELSE {},
                  done |-> FALSE]
    IN /\ nb' = nb + 1
       /\ BroadcastLoop(P, it, sendq, Append(blog, entry))

\* ConnectionManager.broadcast, resumed from a send_json: the sends suspended
\* on one transport complete in the order they were issued.
broadcast_resume(P) ==
    LET it == bc[P] IN
    /\ it.on
    /\ sendq[it.wait] # <<>>
    /\ Head(sendq[it.wait]) = P
    /\ nb' = nb
    /\ BroadcastLoop(P, it, [sendq EXCEPT ![it.wait] = Tail(@)], blog)

\* --------------------------------------------------------- API calls ---
\* A handler may start when a slot is free; slots are taken lowest first.
CanStart(t) ==
    /\ api[t].pc = "idle"
    /\ \A u \in Tasks : u < t => api[u].pc # "idle"

\* Calls may overlap: a call may start while others are in flight.
Overlapping == ncalls < MaxCalls

\* One call at a time: a call may start when no API handler is in flight.
OneAtATime == ncalls < MaxSeqCalls /\ \A t \in Tasks : api[t].pc = "idle"

\* Votes may overlap: a vote may start while others are in flight.
Racing == ncalls < MaxVoteCalls

\* Status changes and votes may overlap.
StatusOverlapping == ncalls < StatusCalls

\* Room ids a find_one may return (0: none).
MaxRoomId == IF MaxCalls > MaxSeqCalls THEN MaxCalls ELSE MaxSeqCalls

\* The handler has returned its response; its slot is free again.
api_return(t) ==
    /\ api[t].pc = "done"
    /\ api' = [api EXCEPT ![t] = IdleApi]
    /\ closed_ok' = IF api[t].op = "close_room" /\ api[t].result = 200
                    THEN closed_ok \cup {api[t].pin} ELSE closed_ok
    /\ UNCHANGED <<dbVars, hubVars, wsVars, ncalls, vlog, mgr>>

\* A handler suspended in broadcast resumes; when the loop ends it returns.
api_broadcast_step(t) ==
    /\ api[t].pc = "bcast"
    /\ broadcast_resume(ApiProc(t))
    /\ api' = [api EXCEPT ![t].pc = IF bc'[ApiProc(t)].on THEN "bcast" ELSE "done",
                          ![t].sends = @ + (IF bc'[ApiProc(t)].on THEN 1 ELSE 0)]
    /\ UNCHANGED <<dbVars, active_connections, wsVars, ncalls, logVars>>

\* ---------------------------------------------------------- vote_song ---
\* The last two entries of a song's vote log with e appended.
LogVote(log, e) == IF Len(log) < 2 THEN Append(log, e) ELSE <<log[2], e>>

\* vote_song: find_one on the song; 404 when it is absent.
vote_song_find(t, s, v) ==
    /\ CanStart(t)
    /\ ncalls' = ncalls + 1
    /\ IF s \in 1..Len(songs)
       THEN /\ api' = [api EXCEPT ![t] =
                         [IdleApi EXCEPT !.op = "vote_song", !.pc = "vote_update",
                                         !.song = s, !.voter = v,
                                         !.room = songs[s].room_id,
                                         !.votes = songs[s].votes,
                                         !.voted_by = songs[s].voted_by]]
            /\ vlog' = [vlog EXCEPT ![s] =
                          LogVote(@, [voter |-> v, votes |-> songs[s].votes,
                                      voted_by |-> Range(songs[s].voted_by)])]
       ELSE /\ api' = [api EXCEPT ![t] =
                         [IdleApi EXCEPT !.op = "vote_song", !.pc = "done",
                                         !.song = s, !.voter = v, !.result = 404]]
            /\ vlog' = vlog
    /\ UNCHANGED <<dbVars, hubVars, wsVars, closed_ok, mgr>>

\* The stored song after the update_one of vote_song, which is built from the
\* votes and voted_by the handler read: $set votes - 1 with $pull when the
\* session id was in voted_by, $inc by votes + 1 with $push when it was not.
VoteUpdate(doc, votes, voted_by, v) ==
    IF v \in Range(voted_by)
    THEN [doc EXCEPT !.votes = votes - 1, !.voted_by = Pull(@, v)]
    ELSE [doc EXCEPT !.votes = @ + (votes + 1), !.voted_by = Append(@, v)]

vote_song_update(t) ==
    /\ api[t].pc = "vote_update"
    /\ songs' = [songs EXCEPT ![api[t].song] =
                    VoteUpdate(@, api[t].votes, api[t].voted_by, api[t].voter)]
    /\ api' = [api EXCEPT ![t].pc = "vote_reread", ![t].writes = @ + 1]
    /\ UNCHANGED <<rooms, hubVars, wsVars, ncalls, logVars>>

\* vote_song: find_one on the updated song.
vote_song_reread(t) ==
    /\ api[t].pc = "vote_reread"
    /\ api' = [api EXCEPT ![t].pc = "vote_room", ![t].updated = SongDoc(api[t].song)]
    /\ UNCHANGED <<dbVars, hubVars, wsVars, ncalls, logVars>>

\* vote_song: find_one on the song's room, by id.
vote_song_room(t) ==
    /\ api[t].pc = "vote_room"
    /\ api' = [api EXCEPT ![t].pc = "vote_bcast",
                          ![t].pin = IF api[t].room \in 1..Len(rooms)
                                     THEN rooms[api[t].room].pin ELSE ""]
    /\ UNCHANGED <<dbVars, hubVars, wsVars, ncalls, logVars>>

\* vote_song: broadcast song_voted to the pin of the room when it was found.
vote_song_broadcast(t) ==
    /\ api[t].pc = "vote_bcast"
    /\ IF api[t].pin # ""
       THEN broadcast(ApiProc(t), api[t].pin, "song_voted", api[t].room,
                      api[t].updated, "")
       ELSE UNCHANGED hubVars
    /\ api' = [api EXCEPT ![t].pc = IF bc'[ApiProc(t)].on THEN "bcast" ELSE "done",
                          ![t].sends = IF bc'[ApiProc(t)].on THEN 1 ELSE 0,
                          ![t].result = 200]
    /\ UNCHANGED <<dbVars, active_connections, wsVars, ncalls, logVars>>

\* ------------------------------------------------- update_song_status ---
\* update_song_status: find_one on the song; 404 when it is absent.
update_song_status_find(t, s, d, st) ==
    /\ CanStart(t)
    /\ ncalls' = ncalls + 1
    /\ api' = [api EXCEPT ![t] =
                 IF s \in 1..Len(songs)
                 THEN [IdleApi EXCEPT !.op = "update_song_status",
                                      !.pc = "status_room", !.song = s, !.dj = d,
                                      !.status = st, !.room = songs[s].room_id]
                 ELSE [IdleApi EXCEPT !.op = "update_song_status", !.pc = "done",
                                      !.song = s, !.dj = d, !.status = st,
                                      !.result = 404]]
    /\ UNCHANGED <<dbVars, hubVars, wsVars, logVars>>

\* update_song_status_room without the comparison of the room's dj_id with the
\* caller.
update_song_status_room_any_caller(t) ==
    /\ api[t].pc = "status_room"
    /\ api' = [api EXCEPT ![t] =
                 IF api[t].room \notin 1..Len(rooms)
                 THEN [@ EXCEPT !.pc = "done", !.result = 403]
                 ELSE [@ EXCEPT !.pc = "status_update",
                                !.pin = rooms[api[t].room].pin]]
    /\ UNCHANGED <<dbVars, hubVars, wsVars, ncalls, logVars>>

\* update_song_status: find_one on the song's room, by id; 403 when there is
\* none or its dj_id is not the caller.
update_song_status_room(t) ==
    /\ api[t].pc = "status_room"
    /\ api' = [api EXCEPT ![t] =
                 IF \/ api[t].room \notin 1..Len(rooms)
                    \/ rooms[api[t].room].dj_id # api[t].dj
                 THEN [@ EXCEPT !.pc = "done", !.result = 403]
                 ELSE [@ EXCEPT !.pc = "status_update",
                                !.pin = rooms[api[t].room].pin]]
    /\ UNCHANGED <<dbVars, hubVars, wsVars, ncalls, logVars>>

\* update_song_status: update_one sets the song's status.
update_song_status_update(t) ==
    /\ api[t].pc = "status_update"
    /\ songs' = [songs EXCEPT ![api[t].song].status = api[t].status]
    /\ api' = [api EXCEPT ![t].pc = "status_reread", ![t].writes = @ + 1]
    /\ UNCHANGED <<rooms, hubVars, wsVars, ncalls, logVars>>

\* update_song_status: find_one on the updated song.
update_song_status_reread(t) ==
    /\ api[t].pc = "status_reread"
    /\ api' = [api EXCEPT ![t].pc = "status_bcast",
                          ![t].updated = SongDoc(api[t].song)]
    /\ UNCHANGED <<dbVars, hubVars, wsVars, ncalls, logVars>>

\* update_song_status: broadcast song_status_changed to the pin of the room
\* and answer.
update_song_status_broadcast(t) ==
    /\ api[t].pc = "status_bcast"
    /\ broadcast(ApiProc(t), api[t].pin, "song_status_changed", api[t].room,
                 api[t].updated, "")
    /\ api' = [api EXCEPT ![t].pc = IF bc'[ApiProc(t)].on THEN "bcast" ELSE "done",
                          ![t].sends = IF bc'[ApiProc(t)].on THEN 1 ELSE 0,
                          ![t].result = 200]
    /\ UNCHANGED <<dbVars, active_connections, wsVars, ncalls, logVars>>

\* -------------------------------------------------------------- rooms ---
RoomIds == 1..Len(rooms)

\* The documents find_one({"pin": p, "active": True}) may return.
ActiveByPin(p) == {r \in RoomIds : rooms[r].pin = p /\ rooms[r].active}

\* The documents find_one({"dj_id": d, "active": True}) may return.
ActiveByDj(d) == {r \in RoomIds : rooms[r].dj_id = d /\ rooms[r].active}

\* The documents the filter {"pin": p} of close_room's update_one matches,
\* closed rooms included.  update_one changes one of them; the store does not
\* say which when there are several.
ByPin(p) == {r \in RoomIds : rooms[r].pin = p}

\* find_one returned r: one of the matching documents, or none (0) when
\* nothing matches.
Found(r, matching) == IF matching = {} THEN r = 0 ELSE r \in matching

\* create_room: find_one on the caller's active room; return it when there
\* is one.
create_room_find(t, d, r) ==
    /\ CanStart(t)
    /\ Found(r, ActiveByDj(d))
    /\ ncalls' = ncalls + 1
    /\ api' = [api EXCEPT ![t] =
                 IF r # 0
                 THEN [IdleApi EXCEPT !.op = "create_room", !.pc = "done", !.dj = d,
                                      !.room = r, !.pin = rooms[r].pin,
                                      !.result = 200]
                 ELSE [IdleApi EXCEPT !.op = "create_room", !.pc = "create_pin",
                                      !.dj = d]]
    /\ UNCHANGED <<dbVars, hubVars, wsVars, logVars>>

\* create_room: generate_room_pin draws p, find_one looks for an active room
\* with it; the loop draws again while there is one.
create_room_pin(t, p) ==
    /\ api[t].pc = "create_pin"
    /\ api' = IF ActiveByPin(p) # {} THEN api
              ELSE [api EXCEPT ![t].pc = "create_insert", ![t].pin = p]
    /\ UNCHANGED <<dbVars, hubVars, wsVars, ncalls, logVars>>

\* create_room: insert_one of the new room, active, and return it.
create_room_insert(t) ==
    /\ api[t].pc = "create_insert"
    /\ rooms' = Append(rooms, [pin |-> api[t].pin, dj_id |-> api[t].dj,
                               active |-> TRUE])
    /\ api' = [api EXCEPT ![t].pc = "done", ![t].room = Len(rooms) + 1,
                          ![t].result = 200, ![t].writes = @ + 1]
    /\ closed_ok' = closed_ok \ {api[t].pin}
    /\ UNCHANGED <<songs, hubVars, wsVars, ncalls, vlog, mgr>>

\* close_room_find without the comparison of the room's dj_id with the caller.
close_room_find_any_caller(t, p, d, r) ==
    /\ CanStart(t)
    /\ Found(r, ActiveByPin(p))
    /\ ncalls' = ncalls + 1
    /\ api' = [api EXCEPT ![t] =
                 IF r = 0
                 THEN [IdleApi EXCEPT !.op = "close_room", !.pc = "done", !.pin = p,
                                      !.dj = d, !.result = 404]
                 ELSE [IdleApi EXCEPT !.op = "close_room", !.pc = "close_update",
                                      !.pin = p, !.dj = d, !.room = r]]
    /\ UNCHANGED <<dbVars, hubVars, wsVars, logVars>>

\* close_room: find_one on the active room of the pin; 404 when there is
\* none, 403 when its dj_id is not the caller.
close_room_find(t, p, d, r) ==
    /\ CanStart(t)
    /\ Found(r, ActiveByPin(p))
    /\ ncalls' = ncalls + 1
    /\ api' = [api EXCEPT ![t] =
                 IF r = 0
                 THEN [IdleApi EXCEPT !.op = "close_room", !.pc = "done", !.pin = p,
                                      !.dj = d, !.result = 404]
                 ELSE IF rooms[r].dj_id # d
                 THEN [IdleApi EXCEPT !.op = "close_room", !.pc = "done", !.pin = p,
                                      !.dj = d, !.room = r, !.result = 403]
                 ELSE [IdleApi EXCEPT !.op = "close_room", !.pc = "close_update",
                                      !.pin = p, !.dj = d, !.room = r]]
    /\ UNCHANGED <<dbVars, hubVars, wsVars, logVars>>

\* close_room: update_one({"pin": pin}, {"$set": {"active": False}}) changes
\* document r, one of those with the pin.
close_room_update(t, r) ==
    /\ api[t].pc = "close_update"
    /\ r \in ByPin(api[t].pin)
    /\ rooms' = [rooms EXCEPT ![r].active = FALSE]
    /\ api' = [api EXCEPT ![t].pc = "close_bcast", ![t].writes = @ + 1]
    /\ UNCHANGED <<songs, hubVars, wsVars, ncalls, logVars>>

\* close_room: broadcast room_closed to the pin and answer.
close_room_broadcast(t) ==
    /\ api[t].pc = "close_bcast"
    /\ broadcast(ApiProc(t), api[t].pin, "room_closed", api[t].room, NoSong, "")
    /\ api' = [api EXCEPT ![t].pc = IF bc'[ApiProc(t)].on THEN "bcast" ELSE "done",
                          ![t].sends = IF bc'[ApiProc(t)].on THEN 1 ELSE 0,
                          ![t].result = 200]
    /\ UNCHANGED <<dbVars, active_connections, wsVars, ncalls, logVars>>

\* get_room: find_one on the active room of the pin; 404 when there is none.
get_room(t, p, r) ==
    /\ CanStart(t)
    /\ Found(r, ActiveByPin(p))
    /\ ncalls' = ncalls + 1
    /\ api' = [api EXCEPT ![t] =
                 [IdleApi EXCEPT !.op = "get_room", !.pc = "done", !.pin = p,
                                 !.room = r,
                                 !.result = IF r = 0 THEN 404 ELSE 200]]
    /\ UNCHANGED <<dbVars, hubVars, wsVars, logVars>>

\* The ids of the songs of room r in the order of created_at, which is the
\* order in which request_song stored them.
RECURSIVE SongsOf(_, _)
SongsOf(r, n) ==
    IF n = 0 THEN <<>>
    ELSE IF songs[n].room_id = r THEN Append(SongsOf(r, n - 1), n)
    ELSE SongsOf(r, n - 1)

\* get_room_songs: find_one on the active room of the pin; 404 when there is
\* none.
get_room_songs_find(t, p, r) ==
    /\ CanStart(t)
    /\ Found(r, ActiveByPin(p))
    /\ ncalls' = ncalls + 1
    /\ api' = [api EXCEPT ![t] =
                 IF r = 0
                 THEN [IdleApi EXCEPT !.op = "get_room_songs", !.pc = "done",
                                      !.pin = p, !.result = 404]
                 ELSE [IdleApi EXCEPT !.op = "get_room_songs", !.pc = "songs_list",
                                      !.pin = p, !.room = r]]
    /\ UNCHANGED <<dbVars, hubVars, wsVars, logVars>>

\* get_room_songs: find the room's songs sorted by created_at.
get_room_songs_list(t) ==
    /\ api[t].pc = "songs_list"
    /\ api' = [api EXCEPT ![t].pc = "done", ![t].result = 200,
                          ![t].found = SongsOf(api[t].room, Len(songs))]
    /\ UNCHANGED <<dbVars, hubVars, wsVars, ncalls, logVars>>

\* request_song: find_one on the active room of the pin; 404 when there is
\* none.
request_song_find(t, p, r) ==
    /\ CanStart(t)
    /\ Len(songs) < Cardinality(SongIds)
    /\ Found(r, ActiveByPin(p))
    /\ ncalls' = ncalls + 1
    /\ api' = [api EXCEPT ![t] =
                 IF r = 0
                 THEN [IdleApi EXCEPT !.op = "request_song", !.pc = "done",
                                      !.pin = p, !.result = 404]
                 ELSE [IdleApi EXCEPT !.op = "request_song", !.pc = "song_insert",
                                      !.pin = p, !.room = r]]
    /\ UNCHANGED <<dbVars, hubVars, wsVars, logVars>>

\* request_song: insert_one of the SongRequest built with the model's
\* defaults (votes 0, voted_by [], status pending).
request_song_insert(t) ==
    /\ api[t].pc = "song_insert"
    /\ songs' = Append(songs, [room_id |-> api[t].room, votes |-> 0,
                               voted_by |-> <<>>, status |-> "pending"])
    /\ api' = [api EXCEPT ![t].pc = "song_reread", ![t].song = Len(songs) + 1,
                          ![t].writes = @ + 1,
                          ![t].updated = ModelDump(Len(songs) + 1, api[t].room)]
    /\ UNCHANGED <<rooms, hubVars, wsVars, ncalls, logVars>>

\* request_song: the find_one on the stored song, whose result is dropped.
request_song_reread(t) ==
    /\ api[t].pc = "song_reread"
    /\ api' = [api EXCEPT ![t].pc = "song_bcast"]
    /\ UNCHANGED <<dbVars, hubVars, wsVars, ncalls, logVars>>

\* request_song: broadcast song_requested to the pin of the request, with
\* song_request.model_dump() as the song, and answer.
request_song_broadcast(t) ==
    /\ api[t].pc = "song_bcast"
    /\ broadcast(ApiProc(t), api[t].pin, "song_requested", api[t].room,
                 api[t].updated, "")
    /\ api' = [api EXCEPT ![t].pc = IF bc'[ApiProc(t)].on THEN "bcast" ELSE "done",
                          ![t].sends = IF bc'[ApiProc(t)].on THEN 1 ELSE 0,
                          ![t].result = 200]
    /\ UNCHANGED <<dbVars, active_connections, wsVars, ncalls, logVars>>

\* ------------------------------------------------- websocket_endpoint ---
\* The frame websocket_endpoint sends right after registering.
Connected(p) == Event("connected", p, 0, 0, NoSong, "")

\* websocket_endpoint up to its first send: manager.connect accepts and
\* registers the websocket, then `connected` is sent.  Connections are numbered
\* in the order they are opened.
ws_connect(l, p) ==
    /\ ws[l].pc = "new"
    /\ \A k \in Listeners : k < l => ws[k].pc # "new"
    /\ active_connections' = connect(active_connections, l, p)
    /\ ws' = [ws EXCEPT ![l] = [pc |-> "hello", pin |-> p]]
    /\ inbox' = [inbox EXCEPT ![l] = Append(@, Connected(p))]
    /\ sendq' = [sendq EXCEPT ![l] = Append(@, WsProc(l))]
    /\ UNCHANGED <<dbVars, transport, api, bc, ncalls, nb, blog, logVars>>

\* The send of `connected` is over and the handler enters its receive loop.
\* When the client is gone the failure reaches the handler as
\* WebSocketDisconnect, from this send or from the receive_text that follows;
\* ws_disconnect is the except clause for both.
ws_hello_done(l) ==
    /\ ws[l].pc = "hello"
    /\ sendq[l] # <<>> /\ Head(sendq[l]) = WsProc(l)
    /\ sendq' = [sendq EXCEPT ![l] = Tail(@)]
    /\ ws' = [ws EXCEPT ![l].pc = "receive"]
    /\ UNCHANGED <<dbVars, active_connections, transport, inbox, api, bc, ncalls,
                   nb, blog, logVars>>

\* receive_text returns a user_joined announcement: broadcast it to the
\* handler's pin, with the announced name or "Guest" when there is none.
ws_receive_user_joined(l, user) ==
    /\ ws[l].pc = "receive"
    /\ transport[l] = "open"
    /\ broadcast(WsProc(l), ws[l].pin, "user_joined", 0, NoSong,
                 IF user = "" THEN "Guest" ELSE user)
    /\ ws' = [ws EXCEPT ![l].pc = IF bc'[WsProc(l)].on THEN "bcast" ELSE "receive"]
    /\ UNCHANGED <<dbVars, active_connections, transport, api, ncalls, logVars>>

\* receive_text returns a JSON object of another type: nothing is done and the
\* loop receives again.
ws_receive_other(l) ==
    /\ ws[l].pc = "receive"
    /\ transport[l] = "open"
    /\ UNCHANGED vars

\* receive_text returns text json.loads rejects (JSONDecodeError) or a JSON
\* value that is no object (message.get raises AttributeError).  Only
\* WebSocketDisconnect is caught: the handler ends with the websocket still
\* registered, and the server closes the connection.
ws_receive_raises(l, kind) ==
    /\ ws[l].pc = "receive"
    /\ transport[l] = "open"
    /\ kind \in {"malformed", "non_object"}
    /\ ws' = [ws EXCEPT ![l].pc = "crashed"]
    /\ transport' = [transport EXCEPT ![l] = "gone"]
    /\ UNCHANGED <<dbVars, hubVars, api, ncalls, logVars>>

\* WebSocketDisconnect is raised in the handler because the client is gone:
\* the except clause deregisters the websocket.
ws_disconnect(l) ==
    /\ ws[l].pc = "receive"
    /\ transport[l] = "gone"
    /\ active_connections' = disconnect(active_connections, l, ws[l].pin)
    /\ bc' = detach(bc, active_connections, l, ws[l].pin)
    /\ ws' = [ws EXCEPT ![l].pc = "closed"]
    /\ UNCHANGED <<dbVars, transport, inbox, sendq, api, ncalls, nb, blog, logVars>>

\* The handler, suspended in its broadcast, resumes; when the loop ends it
\* receives again.
ws_broadcast_step(l) ==
    /\ ws[l].pc = "bcast"
    /\ broadcast_resume(WsProc(l))
    /\ ws' = [ws EXCEPT ![l].pc = IF bc'[WsProc(l)].on THEN "bcast" ELSE "receive"]
    /\ UNCHANGED <<dbVars, active_connections, transport, api, ncalls, logVars>>

\* The client of a connection goes away.
client_drop(l) ==
    /\ ws[l].pc \in {"hello", "receive", "bcast"}
    /\ transport[l] = "open"
    /\ transport' = [transport EXCEPT ![l] = "gone"]
    /\ UNCHANGED <<dbVars, hubVars, ws, api, ncalls, logVars>>

\* ------------------------------------ the manager called on its own ---
\* A caller registers websocket l under pin p with manager.connect.  A
\* websocket is accepted once, so it is connected once.
manager_connect(l, p) ==
    /\ ws[l].pc = "new"
    /\ \A k \in Listeners : k < l => ws[k].pc # "new"
    /\ active_connections' = connect(active_connections, l, p)
    /\ ws' = [ws EXCEPT ![l] = [pc |-> "held", pin |-> p]]
    /\ mgr' = [op |-> "connect", ws |-> l, pin |-> p, raised |-> FALSE,
               before |-> active_connections]
    /\ UNCHANGED <<dbVars, transport, inbox, sendq, api, bc, ncalls, nb, blog,
                   vlog, closed_ok>>

\* A caller calls manager.disconnect for websocket l with the pin it was
\* registered under, for the first time or again.  When list.remove raises
\* the registry is left as it was.
manager_disconnect(l) ==
    /\ ws[l].pc \in {"held", "left"}
    /\ active_connections' = disconnect(active_connections, l, ws[l].pin)
    /\ ws' = [ws EXCEPT ![l].pc = "left"]
    /\ mgr' = [op |-> "disconnect", ws |-> l, pin |-> ws[l].pin,
               raised |-> disconnect_raises(active_connections, l, ws[l].pin),
               before |-> active_connections]
    /\ UNCHANGED <<dbVars, transport, inbox, sendq, api, bc, ncalls, nb, blog,
                   vlog, closed_ok>>

\* ------------------------------------------------------ initial states ---
\* The process after start-up: empty collections, no connection.
InitEmpty ==
    /\ rooms = <<>>
    /\ songs = <<>>
    /\ active_connections = <<>>
    /\ ws = [l \in Listeners |-> [pc |-> "new", pin |-> ""]]
    /\ transport = [l \in Listeners |-> "open"]
    /\ inbox = [l \in Listeners |-> <<>>]
    /\ sendq = [l \in Listeners |-> <<>>]
    /\ api = [t \in Tasks |-> IdleApi]
    /\ bc = [P \in Procs |-> IdleBc]
    /\ ncalls = 0
    /\ nb = 0
    /\ blog = <<>>
    /\ vlog = [s \in SongIds |-> <<>>]
    /\ closed_ok = {}
    /\ mgr = NoCall

\* DJ d1 has created a room that drew pin 1111, a guest has requested one song
\* in it (SongRequest's defaults: votes 0, voted_by [], status pending), and
\* then one listener has connected to the pin and was sent `connected`.
InitVote ==
    /\ rooms = <<[pin |-> "1111", dj_id |-> "d1", active |-> TRUE]>>
    /\ songs = <<[room_id |-> 1, votes |-> 0, voted_by |-> <<>>,
                  status |-> "pending"]>>
    /\ active_connections = [p \in {"1111"} |-> <<1>>]
    /\ ws = [l \in Listeners |->
               IF l = 1 THEN [pc |-> "receive", pin |-> "1111"]
               ELSE [pc |-> "new", pin |-> ""]]
    /\ transport = [l \in Listeners |-> "open"]
    /\ inbox = [l \in Listeners |-> IF l = 1 THEN <<Connected("1111")>> ELSE <<>>]
    /\ sendq = [l \in Listeners |-> <<>>]
    /\ api = [t \in Tasks |-> IdleApi]
    /\ bc = [P \in Procs |-> IdleBc]
    /\ ncalls = 0
    /\ nb = 0
    /\ blog = <<>>
    /\ vlog = [s \in SongIds |-> <<>>]
    /\ closed_ok = {}
    /\ mgr = NoCall

\* ------------------------------------------- votes, one call at a time ---
NextVote ==
    \/ \E t \in Tasks, s \in SongIds, v \in Voters : OneAtATime /\ vote_song_find(t, s, v)
    \/ \E t \in Tasks : vote_song_update(t)
    \/ \E t \in Tasks : vote_song_reread(t)
    \/ \E t \in Tasks : vote_song_room(t)
    \/ \E t \in Tasks : vote_song_broadcast(t)
    \/ \E t \in Tasks : api_broadcast_step(t)
    \/ \E t \in Tasks : api_return(t)

SpecVote == InitVote /\ [][NextVote]_vars

\* C1: after any sequence of non-overlapping votes, every song's stored vote
\* count equals the number of identities in its voter collection.
C1_VotesEqualVoters ==
    \A s \in 1..Len(songs) :
        songs[s].votes = Cardinality(Range(songs[s].voted_by))

\* C2: when the last two votes on a song came from the same identity and both
\* have been applied, the song's vote count and voter set are what the first
\* of the two found.
C2_VoteTwiceRestores ==
    \A s \in 1..Len(songs) :
        ( /\ Len(vlog[s]) = 2
          /\ vlog[s][1].voter = vlog[s][2].voter
          /\ \A t \in Tasks : api[t].pc # "vote_update" )
        => /\ songs[s].votes = vlog[s][1].votes
           /\ Range(songs[s].voted_by) = vlog[s][1].voted_by

\* ----------------------------------- rooms, API calls that may overlap ---
\* Nothing is stored yet; listener 1 has connected to pin 1111 and listener 2
\* to pin 2222 (the hub registers a listener under any pin), and both stay.
InitRooms ==
    /\ rooms = <<>>
    /\ songs = <<>>
    /\ active_connections = [p \in Pins |-> IF p = "1111" THEN <<1>> ELSE <<2>>]
    /\ ws = [l \in Listeners |->
               IF l = 1 THEN [pc |-> "receive", pin |-> "1111"]
               ELSE IF l = 2 THEN [pc |-> "receive", pin |-> "2222"]
               ELSE [pc |-> "new", pin |-> ""]]
    /\ transport = [l \in Listeners |-> "open"]
    /\ inbox = [l \in Listeners |->
                  IF l = 1 THEN <<Connected("1111")>>
                  ELSE IF l = 2 THEN <<Connected("2222")>> ELSE <<>>]
    /\ sendq = [l \in Listeners |-> <<>>]
    /\ api = [t \in Tasks |-> IdleApi]
    /\ bc = [P \in Procs |-> IdleBc]
    /\ ncalls = 0
    /\ nb = 0
    /\ blog = <<>>
    /\ vlog = [s \in SongIds |-> <<>>]
    /\ closed_ok = {}
    /\ mgr = NoCall

NextRooms ==
    \/ \E t \in Tasks, d \in DJs, r \in 0..MaxRoomId :
          Overlapping /\ create_room_find(t, d, r)
    \/ \E t \in Tasks, p \in Pins : create_room_pin(t, p)
    \/ \E t \in Tasks : create_room_insert(t)
    \/ \E t \in Tasks, p \in Pins, d \in DJs, r \in 0..MaxRoomId :
          Overlapping /\ close_room_find(t, p, d, r)
    \/ \E t \in Tasks, r \in 1..MaxRoomId : close_room_update(t, r)
    \/ \E t \in Tasks : close_room_broadcast(t)
    \/ \E t \in Tasks : api_broadcast_step(t)
    \/ \E t \in Tasks : api_return(t)

SpecRooms == InitRooms /\ [][NextRooms]_vars

\* C3: a DJ identity never owns two active rooms, and a room CreateRoom
\* returned, while it is active, is the only active room of its DJ.
C3_OneActiveRoomPerDJ ==
    /\ \A d \in DJs : Cardinality(ActiveByDj(d)) <= 1
    /\ \A t \in Tasks :
          ( /\ api[t].op = "create_room"
            /\ api[t].pc = "done"
            /\ rooms[api[t].room].active )
          => ActiveByDj(api[t].dj) = {api[t].room}

\* C4: no two active rooms of different DJ identities carry the same PIN.
C4_OneActiveRoomPerPin ==
    \A r1 \in RoomIds, r2 \in RoomIds :
        ( /\ rooms[r1].active
          /\ rooms[r2].active
          /\ rooms[r1].dj_id # rooms[r2].dj_id )
        => rooms[r1].pin # rooms[r2].pin

\* C6: a CloseRoom on a pin with no active room answers 404, one by an
\* identity that owns no active room of the pin answers 403, and a CloseRoom
\* that answers 404 or 403 has written nothing and sent nothing: the step in
\* which it fails leaves every room and every listener's frames as they were
\* and starts no broadcast.
C6_FailedCloseChangesNothing ==
    [][\A t \in Tasks :
         /\ ( api[t].pc = "idle" /\ api'[t].op = "close_room" ) =>
               /\ ActiveByPin(api'[t].pin) = {}
                     => api'[t].pc = "done" /\ api'[t].result = 404
               /\ ( /\ ActiveByPin(api'[t].pin) # {}
                    /\ \A r \in ActiveByPin(api'[t].pin) :
                          rooms[r].dj_id # api'[t].dj )
                     => api'[t].pc = "done" /\ api'[t].result = 403
               /\ api'[t].result = 404 => ActiveByPin(api'[t].pin) = {}
               /\ api'[t].result = 403 =>
                     \E r \in ActiveByPin(api'[t].pin) :
                         rooms[r].dj_id # api'[t].dj
         /\ ( /\ api'[t].op = "close_room"
              /\ api'[t].pc = "done"
              /\ api[t].pc # "done"
              /\ api'[t].result \in {403, 404} ) =>
               /\ rooms' = rooms
               /\ inbox' = inbox
               /\ nb' = nb
               /\ api'[t].writes = 0
               /\ api'[t].sends = 0
      ]_vars

\* C6's case: a CloseRoom has answered 403 and another has answered 404.
C6_Witness ==
    \E t \in Tasks, u \in Tasks :
        /\ api[t].op = "close_room" /\ api[t].pc = "done" /\ api[t].result = 403
        /\ api[u].op = "close_room" /\ api[u].pc = "done" /\ api[u].result = 404

\* C7: no listener is sent room_closed twice for one room, and no two
\* CloseRoom calls succeed for one room.
C7_OneRoomClosedPerRoom ==
    /\ \A l \in Listeners : \A i \in 1..Len(inbox[l]), j \in 1..Len(inbox[l]) :
          ( /\ inbox[l][i].type = "room_closed"
            /\ inbox[l][j].type = "room_closed"
            /\ inbox[l][i].room = inbox[l][j].room )
          => i = j
    /\ \A t \in Tasks, u \in Tasks :
          ( /\ api[t].op = "close_room" /\ api[t].result = 200
            /\ api[u].op = "close_room" /\ api[u].result = 200
            /\ api[t].room = api[u].room )
          => t = u

\* ------------------------------------ rooms, one API call at a time ---
NextRoomSeq ==
    \/ \E t \in Tasks, d \in DJs, r \in 0..MaxRoomId :
          OneAtATime /\ create_room_find(t, d, r)
    \/ \E t \in Tasks, p \in Pins : create_room_pin(t, p)
    \/ \E t \in Tasks : create_room_insert(t)
    \/ \E t \in Tasks, p \in Pins, d \in DJs, r \in 0..MaxRoomId :
          OneAtATime /\ close_room_find(t, p, d, r)
    \/ \E t \in Tasks, r \in 1..MaxRoomId : close_room_update(t, r)
    \/ \E t \in Tasks : close_room_broadcast(t)
    \/ \E t \in Tasks, p \in Pins, r \in 0..MaxRoomId : OneAtATime /\ get_room(t, p, r)
    \/ \E t \in Tasks, p \in Pins, r \in 0..MaxRoomId :
          OneAtATime /\ get_room_songs_find(t, p, r)
    \/ \E t \in Tasks : get_room_songs_list(t)
    \/ \E t \in Tasks, p \in Pins, r \in 0..MaxRoomId :
          OneAtATime /\ request_song_find(t, p, r)
    \/ \E t \in Tasks : request_song_insert(t)
    \/ \E t \in Tasks : request_song_reread(t)
    \/ \E t \in Tasks : request_song_broadcast(t)
    \/ \E t \in Tasks : api_broadcast_step(t)
    \/ \E t \in Tasks : api_return(t)

SpecRoomSeq == InitRooms /\ [][NextRoomSeq]_vars

\* C5: a CloseRoom that answered 200 has left the room it found inactive, and
\* from its answer until a CreateRoom stores a new room with the pin, the pin
\* has no active room and GetRoom, ListSongs and RequestSong on it answer 404.
C5_ClosedPinNotFound ==
    /\ \A t \in Tasks :
          ( api[t].op = "close_room" /\ api[t].pc = "done" /\ api[t].result = 200 )
          => ~rooms[api[t].room].active
    /\ \A p \in closed_ok : ActiveByPin(p) = {}
    /\ \A t \in Tasks :
          ( /\ api[t].op \in {"get_room", "get_room_songs", "request_song"}
            /\ api[t].pc = "done"
            /\ api[t].pin \in closed_ok )
          => api[t].result = 404


\* ------------------------------------------- the hub and its listeners ---
NextHub ==
    \/ \E l \in Listeners, p \in Pins : ws_connect(l, p)
    \/ \E l \in Listeners : ws_hello_done(l)
    \/ \E l \in Listeners, user \in Users :
          nb < MaxBroadcasts /\ ws_receive_user_joined(l, user)
    \/ \E l \in Listeners : ws_receive_other(l)
    \/ \E l \in Listeners, kind \in {"malformed", "non_object"} :
          ws_receive_raises(l, kind)
    \/ \E l \in Listeners : ws_disconnect(l)
    \/ \E l \in Listeners : ws_broadcast_step(l)
    \/ \E l \in Listeners : client_drop(l)

SpecHub == InitEmpty /\ [][NextHub]_vars

\* The hub with fewer listeners, for the routing by pin.
NextPins ==
    \/ \E l \in 1..PinListeners, p \in Pins : ws_connect(l, p)
    \/ \E l \in Listeners : ws_hello_done(l)
    \/ \E l \in Listeners, user \in Users :
          nb < PinBroadcasts /\ ws_receive_user_joined(l, user)
    \/ \E l \in Listeners : ws_receive_other(l)
    \/ \E l \in Listeners, kind \in {"malformed", "non_object"} :
          ws_receive_raises(l, kind)
    \/ \E l \in Listeners : ws_disconnect(l)
    \/ \E l \in Listeners : ws_broadcast_step(l)
    \/ \E l \in Listeners : client_drop(l)

SpecPins == InitEmpty /\ [][NextPins]_vars

\* Listener l is in the list registered under pin p.
Registered(l, p) ==
    p \in DOMAIN active_connections /\ l \in Range(active_connections[p])

\* Listener l has been sent the frame of broadcast number n.
Received(l, n) == \E i \in 1..Len(inbox[l]) : inbox[l][i].seq = n

\* C8: when a broadcast has returned, every listener that was registered
\* under its pin when it was invoked, is still registered and has a working
\* transport has been sent its event.
C8_EveryListenerReceives ==
    \A n \in 1..Len(blog) :
        blog[n].done =>
            \A l \in blog[n].audience :
                ( Registered(l, blog[n].pin) /\ transport[l] = "open" )
                => Received(l, n)

\* C9: every frame a listener has been sent by a broadcast was broadcast to
\* the pin the listener is registered under.
C9_NoEventFromOtherPin ==
    \A l \in Listeners : \A i \in 1..Len(inbox[l]) :
        inbox[l][i].seq > 0 => inbox[l][i].pin = ws[l].pin

\* C9's case: broadcasts to two different pins have been invoked, each pin
\* with a listener registered under it, and a listener has been sent one.
C9_Witness ==
    \E l \in Listeners, k \in Listeners, n \in 1..Len(blog), m \in 1..Len(blog) :
        /\ blog[n].pin # blog[m].pin
        /\ Registered(l, blog[n].pin)
        /\ Registered(k, blog[m].pin)
        /\ Received(l, n)
        /\ Received(k, m)

\* C10: each listener is sent the events of the broadcasts it is sent in the
\* order in which the broadcasts were invoked.
C10_FifoPerListener ==
    \A l \in Listeners : \A i \in 1..Len(inbox[l]), j \in 1..Len(inbox[l]) :
        ( i < j /\ inbox[l][i].seq > 0 /\ inbox[l][j].seq > 0 )
        => inbox[l][i].seq < inbox[l][j].seq

\* Nobody was removed from the list broadcast number n ran over: every listener
\* registered under its pin when it was invoked is still registered.
Undisturbed(n) == \A l \in blog[n].audience : Registered(l, blog[n].pin)

\* Listener l comes before listener k in the list registered under pin p.
Before(l, k, p) ==
    \E i \in 1..Len(active_connections[p]), j \in 1..Len(active_connections[p]) :
        i < j /\ active_connections[p][i] = l /\ active_connections[p][j] = k

NextManager ==
    \/ \E l \in Listeners, p \in Pins : manager_connect(l, p)
    \/ \E l \in Listeners : manager_disconnect(l)

SpecManager == InitEmpty /\ [][NextManager]_vars

\* C12: a disconnect for a websocket that was not registered any more when it
\* was called raised nothing and left the registry as it was.
C12_SecondLeaveIsNoOp ==
    ( /\ mgr.op = "disconnect"
      /\ \/ mgr.pin \notin DOMAIN mgr.before
         \/ mgr.ws \notin Range(mgr.before[mgr.pin]) )
    => ~mgr.raised /\ active_connections = mgr.before

\* C13: no pin of the registry maps to an empty list, and a pin is a key of
\* the registry exactly when a websocket that was connected under it has not
\* been disconnected.
C13_NoEmptyGroup ==
    /\ \A p \in DOMAIN active_connections : active_connections[p] # <<>>
    /\ \A p \in Pins :
          p \in DOMAIN active_connections
          <=> \E l \in Listeners : ws[l].pc = "held" /\ ws[l].pin = p

\* C13's case: the last websocket of a pin was disconnected and the pin's
\* entry went with it, while another pin keeps its listeners.
C13_Witness ==
    /\ mgr.op = "disconnect"
    /\ mgr.pin \in DOMAIN mgr.before
    /\ mgr.pin \notin DOMAIN active_connections
    /\ DOMAIN active_connections # {}

\* ------------------------------------------------ votes that may overlap ---
NextVoteRace ==
    \/ \E t \in Tasks, s \in SongIds, v \in Voters : Racing /\ vote_song_find(t, s, v)
    \/ \E t \in Tasks : vote_song_update(t)
    \/ \E t \in Tasks : vote_song_reread(t)
    \/ \E t \in Tasks : vote_song_room(t)
    \/ \E t \in Tasks : vote_song_broadcast(t)
    \/ \E t \in Tasks : api_broadcast_step(t)
    \/ \E t \in Tasks : api_return(t)

SpecVoteRace == InitVote /\ [][NextVoteRace]_vars

\* C14: no voter identity is in a song's voted_by more than once.
C14_OneVotePerIdentity ==
    \A s \in 1..Len(songs) :
        Len(songs[s].voted_by) = Cardinality(Range(songs[s].voted_by))

\* C15: no stored song has a negative vote count.
C15_VotesNeverNegative ==
    \A s \in 1..Len(songs) : songs[s].votes >= 0

\* ------------------------- status changes and votes that may overlap ---
NextStatus ==
    \/ \E t \in Tasks, s \in SongIds, d \in DJs, st \in Statuses :
          StatusOverlapping /\ update_song_status_find(t, s, d, st)
    \/ \E t \in Tasks : update_song_status_room(t)
    \/ \E t \in Tasks : update_song_status_update(t)
    \/ \E t \in Tasks : update_song_status_reread(t)
    \/ \E t \in Tasks : update_song_status_broadcast(t)
    \/ \E t \in Tasks, s \in SongIds, v \in Voters :
          StatusOverlapping /\ vote_song_find(t, s, v)
    \/ \E t \in Tasks : vote_song_update(t)
    \/ \E t \in Tasks : vote_song_reread(t)
    \/ \E t \in Tasks : vote_song_room(t)
    \/ \E t \in Tasks : vote_song_broadcast(t)
    \/ \E t \in Tasks : api_broadcast_step(t)
    \/ \E t \in Tasks : api_return(t)

SpecStatus == InitVote /\ [][NextStatus]_vars

\* The DJ identity of the room of stored song s.
DjOfSong(s) == rooms[songs[s].room_id].dj_id

\* C16: a step that changes a stored song's status is the write of a SetStatus
\* call made by the DJ of the song's room; a SetStatus answers 404 exactly when
\* the song is absent and 403 exactly when the song is stored and the caller
\* is not the DJ of its room; and the step in which a SetStatus fails leaves
\* every song and every listener's frames as they were and starts no
\* broadcast, the call having written and sent nothing.
C16_StatusOnlyByDj ==
    [][/\ \A s \in 1..Len(songs) :
             songs'[s].status # songs[s].status =>
                 \E t \in Tasks :
                     /\ api[t].op = "update_song_status"
                     /\ api[t].song = s
                     /\ api[t].dj = DjOfSong(s)
                     /\ api'[t].writes = api[t].writes + 1
                     /\ songs'[s].status = api[t].status
       /\ \A t \in Tasks :
             ( /\ api'[t].op = "update_song_status"
               /\ api'[t].pc = "done"
               /\ api[t].pc # "done" ) =>
                 /\ api'[t].result = 404 <=> api'[t].song \notin 1..Len(songs)
                 /\ api'[t].result = 403 <=>
                       /\ api'[t].song \in 1..Len(songs)
                       /\ api'[t].dj # DjOfSong(api'[t].song)
                 /\ api'[t].result \in {403, 404} =>
                       /\ songs' = songs
                       /\ inbox' = inbox
                       /\ nb' = nb
                       /\ api'[t].writes = 0
                       /\ api'[t].sends = 0
      ]_vars

\* C16's case: a SetStatus by an identity that is not the DJ of the song's room
\* has answered 403 with the song's status not the one it asked for, and one
\* on an absent song has answered 404.
C16_Witness ==
    \E t \in Tasks, u \in Tasks :
        /\ api[t].op = "update_song_status" /\ api[t].pc = "done"
        /\ api[t].result = 403
        /\ api[t].dj # DjOfSong(api[t].song)
        /\ songs[api[t].song].status # api[t].status
        /\ api[u].op = "update_song_status" /\ api[u].pc = "done"
        /\ api[u].result = 404

\* -------------------------------------------------------- request_song ---
\* The frames of type song_requested carrying song s that listener l was sent.
SongRequestedFrames(l, s) ==
    {i \in 1..Len(inbox[l]) :
        inbox[l][i].type = "song_requested" /\ inbox[l][i].song.id = s}

\* C17: a RequestSong that answered 200 has stored one song, of the active
\* room it found, with votes 0, no voter and status pending, and every
\* listener registered under the pin with a working transport has been sent
\* exactly one song_requested frame carrying that song; one that answered 404
\* has stored nothing and sent nothing.  (Calls run one at a time, so the song
\* is still as it was stored when the call has its answer.)
C17_RequestSongStoresAndBroadcasts ==
    \A t \in Tasks :
        ( api[t].op = "request_song" /\ api[t].pc = "done" ) =>
            /\ api[t].result = 200 =>
                  /\ api[t].writes = 1
                  /\ api[t].song = Len(songs)
                  /\ songs[api[t].song] =
                        [room_id |-> api[t].room, votes |-> 0, voted_by |-> <<>>,
                         status |-> "pending"]
                  /\ \A l \in Listeners :
                        ( Registered(l, api[t].pin) /\ transport[l] = "open" )
                        => Cardinality(SongRequestedFrames(l, api[t].song)) = 1
            /\ api[t].result = 404 => api[t].writes = 0 /\ api[t].sends = 0

\* ---------------------------------------------------- inbound messages ---
\* C18: a handler that is in its receive loop with a working transport stays
\* in the loop, or broadcasts a user_joined announcement and comes back to it,
\* whatever message it receives; it stays registered and its transport stays
\* open.
C18_OtherMessagesIgnored ==
    [][\A l \in Listeners :
         ( /\ ws[l].pc = "receive"
           /\ transport[l] = "open"
           /\ ws'[l] # ws[l] ) =>
             /\ ws'[l].pc = "bcast"
             /\ nb' = nb + 1
             /\ Registered(l, ws[l].pin)'
      ]_vars

\* The hub with the scheduling of the event loop: a handler that can resume
\* (its send is over, or WebSocketDisconnect is waiting for it) is resumed.
SpecPinsLive ==
    /\ InitEmpty
    /\ [][NextPins]_vars
    /\ \A l \in Listeners :
          /\ WF_vars(ws_hello_done(l))
          /\ WF_vars(ws_broadcast_step(l))
          /\ WF_vars(ws_disconnect(l))

\* The handler of connection l has ended: by WebSocketDisconnect or by another
\* exception.
HandlerEnded(l) == ws[l].pc \in {"closed", "crashed"}

\* C19: a listener whose handler has ended is registered nowhere from some
\* moment on.
C19_EndedHandlerDeregistered ==
    \A l \in Listeners :
        HandlerEnded(l) ~> (\A p \in Pins : ~Registered(l, p))

\* ------------------------- songs and rooms, one API call at a time ---
NextSongSeq ==
    \/ \E t \in Tasks, d \in DJs, r \in 0..MaxRoomId :
          OneAtATime /\ create_room_find(t, d, r)
    \/ \E t \in Tasks, p \in Pins : create_room_pin(t, p)
    \/ \E t \in Tasks : create_room_insert(t)
    \/ \E t \in Tasks, p \in Pins, d \in DJs, r \in 0..MaxRoomId :
          OneAtATime /\ close_room_find(t, p, d, r)
    \/ \E t \in Tasks, r \in 1..MaxRoomId : close_room_update(t, r)
    \/ \E t \in Tasks : close_room_broadcast(t)
    \/ \E t \in Tasks, s \in SongIds, v \in Voters :
          OneAtATime /\ vote_song_find(t, s, v)
    \/ \E t \in Tasks : vote_song_update(t)
    \/ \E t \in Tasks : vote_song_reread(t)
    \/ \E t \in Tasks : vote_song_room(t)
    \/ \E t \in Tasks : vote_song_broadcast(t)
    \/ \E t \in Tasks, s \in SongIds, d \in DJs, st \in Statuses :
          OneAtATime /\ update_song_status_find(t, s, d, st)
    \/ \E t \in Tasks : update_song_status_room(t)
    \/ \E t \in Tasks : update_song_status_update(t)
    \/ \E t \in Tasks : update_song_status_reread(t)
    \/ \E t \in Tasks : update_song_status_broadcast(t)
    \/ \E t \in Tasks : api_broadcast_step(t)
    \/ \E t \in Tasks : api_return(t)

SpecSongSeq == InitVote /\ [][NextSongSeq]_vars

\* C20: when a listener is sent a song_voted or song_status_changed frame, the
\* pin it is registered under has no active room other than the room of the
\* frame's song.
C20_SongEventsStayInRoom ==
    [][\A l \in Listeners :
         inbox'[l] # inbox[l] =>
             LET e == inbox'[l][Len(inbox'[l])] IN
             e.type \in {"song_voted", "song_status_changed"} =>
                 \A r \in ActiveByPin(ws[l].pin) : r = e.song.room_id
      ]_vars

=============================================================================
